---- MODULE Spec2Model ----
(***************************************************************************)
(* Model of simulate() in discrete_events_simulation.py: the single-server *)
(* queue driven by a two-slot event list.  Real-valued instants are laid   *)
(* on an integer grid; the uniform source np.random.rand() is a grid of    *)
(* levels u / UniformLevels, u \in 0 .. UniformLevels - 1, so that u = 0   *)
(* is the boundary draw 0.0 and every other level is inside (0, 1).        *)
(***************************************************************************)
EXTENDS Integers, Sequences, FiniteSets, TLC

\* ---- bounds of the model ----
MaxHorizon == 3
MaxT0 == 3
UniformLevels == 3
LogScale == 2

\* np.inf (line 97); every finite instant of the bounded model is far below it.
Inf == 1000000

\* rate parameters of the scenarios that are explored (lam, mu > 0)
Rates == {1, 2}

\* Ss keeps the values departure.time has taken (lines 134, 149, 169), in
\* the order of the draws.
VARIABLES pc, scenario, generation, Ts, it, EL, t, n, NA, ND, times, queues, As, Ds,
          seeded, tape, pos, run, prev, Ss

vars == <<pc, scenario, generation, Ts, it, EL, t, n, NA, ND, times, queues, As, Ds,
          seeded, tape, pos, run, prev, Ss>>

\* ---- floating-point helpers: + and / with an infinite operand ----
Plus(a, b) == IF a = Inf \/ b = Inf THEN Inf ELSE a + b

\* a positive numpy float divided by 0 is inf (a RuntimeWarning, no exception)
Quot(a, b) == IF a = Inf \/ b = 0 THEN Inf ELSE a \div b

\* np.random.rand(): the levels of the half-open interval [0, 1)
rand == 0 .. (UniformLevels - 1)

\* a source that ignores its seed: every draw is fresh
NextDrawsUnseeded(k) == rand

\* The process-wide source behind np.random.rand() (lines 22, 40).  seeded
\* tells whether the caller has fixed its seed; if so, tape is the stream
\* that seed fixes, as far as it has been revealed, and pos the number of
\* draws consumed since seeding.  NextDraws(k) is what the k-th call from
\* now can return: the recorded value when the stream is replayed, any
\* level when it is revealed for the first time.
NextDraws(k) == IF pos + k < Len(tape) THEN {tape[pos + k + 1]} ELSE rand

\* the revealed stream after the draws us have been consumed; a source
\* seeded from entropy has no stream to replay
Consumed(us) ==
  IF ~seeded \/ pos + Len(us) <= Len(tape) THEN tape
  ELSE SubSeq(tape, 1, pos) \o us

\* -np.log(u): +inf at the boundary draw 0.0, strictly positive and
\* decreasing inside (0, 1)
NegLog(u) == IF u = 0 THEN Inf ELSE LogScale * (UniformLevels - u)

\* exponential_rng(lam) for the uniform draw u
exponential_rng(lam, u) == Quot(NegLog(u), lam)

\* Arrival.travel(): tt = t0 * rand(), a value of [0, t0)
travel(t0, u) == (t0 * u) \div UniformLevels

\* Departure.depart(): time = exponential_rng(mu)
depart(mu, u) == exponential_rng(mu, u)

\* list.sort(): ascending insertion sort
RECURSIVE Insert(_, _)
Insert(x, s) ==
  IF s = <<>> THEN <<x>>
  ELSE IF x <= Head(s) THEN <<x>> \o s
  ELSE <<Head(s)>> \o Insert(x, Tail(s))

\* Ts.sort() left out
SortSkipped(s) == s

RECURSIVE Sort(_)
Sort(s) == IF s = <<>> THEN <<>> ELSE Insert(Head(s), Sort(Tail(s)))

\* Scenario(demand_duration, t0, lam, mu)
Scenarios ==
  [demand_duration : 1 .. MaxHorizon, t0 : 0 .. MaxT0, lam : Rates, mu : Rates]

\* state of simulate() after lines 87-101, the source seeded from entropy
Init ==
  /\ pc = "gen"
  /\ scenario \in Scenarios
  /\ seeded = FALSE
  /\ generation = 0
  /\ Ts = <<>>
  /\ it = 0
  /\ EL = <<0, Inf>>
  /\ t = 0
  /\ n = 0
  /\ NA = 0
  /\ ND = 0
  /\ times = <<0>>
  /\ queues = <<0>>
  /\ As = <<>>
  /\ Ds = <<>>
  /\ tape = <<>>
  /\ pos = 0
  /\ run = 1
  /\ prev = <<>>
  /\ Ss = <<>>

\* Scenarios the constructor (lines 62-71) accepts although a parameter is
\* out of range: a zero horizon, a negative free-flow time, a zero rate.
InvalidScenarios ==
  [demand_duration : {0}, t0 : 0 .. MaxT0, lam : Rates, mu : Rates]
    \cup [demand_duration : 1 .. MaxHorizon, t0 : {-1}, lam : Rates, mu : Rates]
    \cup [demand_duration : 1 .. MaxHorizon, t0 : 0 .. MaxT0, lam : {0}, mu : Rates]
    \cup [demand_duration : 1 .. MaxHorizon, t0 : 0 .. MaxT0, lam : Rates, mu : {0}]

\* state of simulate() after lines 87-101 when called with such a scenario
InitInvalid ==
  /\ pc = "gen"
  /\ scenario \in InvalidScenarios
  /\ seeded = FALSE
  /\ generation = 0
  /\ Ts = <<>>
  /\ it = 0
  /\ EL = <<0, Inf>>
  /\ t = 0
  /\ n = 0
  /\ NA = 0
  /\ ND = 0
  /\ times = <<0>>
  /\ queues = <<0>>
  /\ As = <<>>
  /\ Ds = <<>>
  /\ tape = <<>>
  /\ pos = 0
  /\ run = 1
  /\ prev = <<>>
  /\ Ss = <<>>

\* the same state, the caller having fixed the seed of the source; the
\* scenarios are those of the largest free-flow time, where the travel draw
\* reorders arrivals
InitDet ==
  /\ pc = "gen"
  /\ scenario \in {sc \in Scenarios : sc.t0 = MaxT0}
  /\ seeded = TRUE
  /\ generation = 0
  /\ Ts = <<>>
  /\ it = 0
  /\ EL = <<0, Inf>>
  /\ t = 0
  /\ n = 0
  /\ NA = 0
  /\ ND = 0
  /\ times = <<0>>
  /\ queues = <<0>>
  /\ As = <<>>
  /\ Ds = <<>>
  /\ tape = <<>>
  /\ pos = 0
  /\ run = 1
  /\ prev = <<>>
  /\ Ss = <<>>

\* one iteration of the pre-generation loop (lines 102-113); on the
\* overshooting instant: sort, take the iterator and its first element
\* (lines 114-117).  Ts is the list, it the number of elements the
\* iterator has handed out.
Generate ==
  /\ pc = "gen"
  /\ \E u1 \in NextDraws(0), u2 \in NextDraws(1) :
       LET tg == Plus(generation, exponential_rng(scenario.lam, u1))
           ta == Plus(tg, travel(scenario.t0, u2))
           all == Append(Ts, ta)
           sorted == Sort(all)
       IN /\ generation' = tg
          /\ tape' = Consumed(<<u1, u2>>)
          /\ pos' = pos + 2
          /\ IF ta > scenario.demand_duration
             THEN /\ Ts' = sorted
                  /\ it' = 1
                  /\ EL' = <<sorted[1], EL[2]>>
                  /\ pc' = "loop"
             ELSE /\ Ts' = all
                  /\ it' = it
                  /\ EL' = EL
                  /\ pc' = "gen"
  /\ UNCHANGED <<scenario, t, n, NA, ND, times, queues, As, Ds, seeded, run, prev, Ss>>

\* line 119 without the horizon test
CondANoHorizon == EL[1] <= EL[2]

\* line 119 with a strict horizon test
CondAStrictHorizon == EL[1] <= EL[2] /\ EL[1] < scenario.demand_duration

\* line 119 with a strict comparison of the two slots
CondATieStrict == EL[1] < EL[2] /\ EL[1] <= scenario.demand_duration

\* condition of Phase A (line 119)
CondA == EL[1] <= EL[2] /\ EL[1] <= scenario.demand_duration

\* condition of Phase B (line 137)
CondB == EL[2] < EL[1] /\ EL[2] < scenario.demand_duration

\* line 156 with the test of the ND-slot alone
CondCOnlyDeparture == EL[2] > scenario.demand_duration

\* condition of Phase C (line 156)
CondC == EL[1] > scenario.demand_duration \/ EL[2] > scenario.demand_duration

\* the chain with the departure tested first and winning a tie
BranchDepartureFirst ==
  IF EL[2] <= EL[1] /\ EL[2] < scenario.demand_duration THEN "B"
  ELSE IF CondA THEN "A"
  ELSE IF CondC THEN "C"
  ELSE "none"

\* the chain with the drain tested first
BranchDrainFirst ==
  IF CondC THEN "C"
  ELSE IF CondA THEN "A"
  ELSE IF CondB THEN "B"
  ELSE "none"

\* the if / elif / elif chain of the main loop (lines 119, 137, 156);
\* "none" is an iteration that falls through all three branches
Branch ==
  IF CondA THEN "A"
  ELSE IF CondB THEN "B"
  ELSE IF CondC THEN "C"
  ELSE "none"

\* Phase A drawing a service duration at every arrival
PhaseAAlwaysRearm ==
  /\ pc = "loop"
  /\ Branch = "A"
  /\ t' = EL[1]
  /\ n' = n + 1
  /\ NA' = NA + 1
  /\ times' = Append(times, EL[1])
  /\ As' = Append(As, EL[1])
  /\ queues' = Append(queues, n + 1)
  /\ IF it >= Len(Ts)
     THEN \* next(Ts) raises StopIteration
          /\ pc' = "StopIteration"
          /\ UNCHANGED <<it, EL, tape, pos, Ss>>
     ELSE /\ it' = it + 1
          /\ pc' = "loop"
          /\ IF n + 1 >= 1
             THEN \E u \in NextDraws(0) :
                    /\ EL' = <<Ts[it + 1], Plus(EL[1], depart(scenario.mu, u))>>
                    /\ Ss' = Append(Ss, depart(scenario.mu, u))
                    /\ tape' = Consumed(<<u>>)
                    /\ pos' = pos + 1
             ELSE /\ EL' = <<Ts[it + 1], EL[2]>>
                  /\ UNCHANGED <<tape, pos, Ss>>
  /\ UNCHANGED <<scenario, generation, Ts, ND, Ds, seeded, run, prev>>

\* Phase A, lines 119-136: process the arrival
PhaseA ==
  /\ pc = "loop"
  /\ Branch = "A"
  /\ t' = EL[1]
  /\ n' = n + 1
  /\ NA' = NA + 1
  /\ times' = Append(times, EL[1])
  /\ As' = Append(As, EL[1])
  /\ queues' = Append(queues, n + 1)
  /\ IF it >= Len(Ts)
     THEN \* next(Ts) raises StopIteration
          /\ pc' = "StopIteration"
          /\ UNCHANGED <<it, EL, tape, pos, Ss>>
     ELSE /\ it' = it + 1
          /\ pc' = "loop"
          /\ IF n + 1 = 1
             THEN \E u \in NextDraws(0) :
                    /\ EL' = <<Ts[it + 1], Plus(EL[1], depart(scenario.mu, u))>>
                    /\ Ss' = Append(Ss, depart(scenario.mu, u))
                    /\ tape' = Consumed(<<u>>)
                    /\ pos' = pos + 1
             ELSE /\ EL' = <<Ts[it + 1], EL[2]>>
                  /\ UNCHANGED <<tape, pos, Ss>>
  /\ UNCHANGED <<scenario, generation, Ts, ND, Ds, seeded, run, prev>>

\* Phase B without queues.append(n)
PhaseBNoQueue ==
  /\ pc = "loop"
  /\ Branch = "B"
  /\ t' = EL[2]
  /\ n' = n - 1
  /\ ND' = ND + 1
  /\ times' = Append(times, EL[2])
  /\ Ds' = Append(Ds, EL[2])
  /\ IF n - 1 > 0
     THEN \E u \in NextDraws(0) :
            /\ EL' = <<EL[1], Plus(EL[2], depart(scenario.mu, u))>>
            /\ Ss' = Append(Ss, depart(scenario.mu, u))
            /\ tape' = Consumed(<<u>>)
            /\ pos' = pos + 1
     ELSE /\ EL' = <<EL[1], Inf>>
          /\ UNCHANGED <<tape, pos, Ss>>
  /\ UNCHANGED <<pc, scenario, generation, Ts, it, NA, As, queues, seeded, run, prev>>

\* Phase B that leaves the ND-slot as it is while customers remain
PhaseBNoRedraw ==
  /\ pc = "loop"
  /\ Branch = "B"
  /\ t' = EL[2]
  /\ n' = n - 1
  /\ ND' = ND + 1
  /\ times' = Append(times, EL[2])
  /\ Ds' = Append(Ds, EL[2])
  /\ queues' = Append(queues, n - 1)
  /\ IF n - 1 > 0
     THEN UNCHANGED <<EL, tape, pos, Ss>>
     ELSE /\ EL' = <<EL[1], Inf>>
          /\ UNCHANGED <<tape, pos, Ss>>
  /\ UNCHANGED <<pc, scenario, generation, Ts, it, NA, As, seeded, run, prev>>

\* Phase B, lines 137-155: process the departure
PhaseB ==
  /\ pc = "loop"
  /\ Branch = "B"
  /\ t' = EL[2]
  /\ n' = n - 1
  /\ ND' = ND + 1
  /\ times' = Append(times, EL[2])
  /\ Ds' = Append(Ds, EL[2])
  /\ queues' = Append(queues, n - 1)
  /\ IF n - 1 > 0
     THEN \E u \in NextDraws(0) :
            /\ EL' = <<EL[1], Plus(EL[2], depart(scenario.mu, u))>>
            /\ Ss' = Append(Ss, depart(scenario.mu, u))
            /\ tape' = Consumed(<<u>>)
            /\ pos' = pos + 1
     ELSE /\ EL' = <<EL[1], Inf>>
          /\ UNCHANGED <<tape, pos, Ss>>
  /\ UNCHANGED <<pc, scenario, generation, Ts, it, NA, As, seeded, run, prev>>

\* Phase C with the test n >= 0 in place of n > 0
PhaseCNoGuard ==
  /\ pc = "loop"
  /\ Branch = "C"
  /\ n >= 0
  /\ t' = EL[2]
  /\ n' = n - 1
  /\ ND' = ND + 1
  /\ times' = Append(times, EL[2])
  /\ Ds' = Append(Ds, EL[2])
  /\ queues' = Append(queues, n - 1)
  /\ pc' = IF n - 1 > 0 THEN "drain" ELSE "loop"
  /\ UNCHANGED <<scenario, generation, Ts, it, EL, NA, As, seeded, tape, pos, run, prev, Ss>>

\* Phase C with n > 0, lines 156-165: the first departure of the drain
PhaseC ==
  /\ pc = "loop"
  /\ Branch = "C"
  /\ n > 0
  /\ t' = EL[2]
  /\ n' = n - 1
  /\ ND' = ND + 1
  /\ times' = Append(times, EL[2])
  /\ Ds' = Append(Ds, EL[2])
  /\ queues' = Append(queues, n - 1)
  /\ pc' = IF n - 1 > 0 THEN "drain" ELSE "loop"
  /\ UNCHANGED <<scenario, generation, Ts, it, EL, NA, As, seeded, tape, pos, run, prev, Ss>>

\* the drain loop without Ds.append(t)
DrainNoRecord ==
  /\ pc = "drain"
  /\ n > 0
  /\ \E u \in NextDraws(0) :
       LET td == Plus(t, depart(scenario.mu, u))
       IN /\ EL' = <<EL[1], td>>
          /\ t' = td
          /\ times' = Append(times, td)
          /\ tape' = Consumed(<<u>>)
          /\ Ss' = Append(Ss, depart(scenario.mu, u))
  /\ pos' = pos + 1
  /\ n' = n - 1
  /\ ND' = ND + 1
  /\ queues' = Append(queues, n - 1)
  /\ pc' = IF n - 1 > 0 THEN "drain" ELSE "loop"
  /\ UNCHANGED <<scenario, generation, Ts, it, NA, As, Ds, seeded, run, prev>>

\* the drain loop with td = departure.time, the clock t left out
DrainNoClock ==
  /\ pc = "drain"
  /\ n > 0
  /\ \E u \in NextDraws(0) :
       LET td == depart(scenario.mu, u)
       IN /\ EL' = <<EL[1], td>>
          /\ t' = td
          /\ times' = Append(times, td)
          /\ Ds' = Append(Ds, td)
          /\ tape' = Consumed(<<u>>)
          /\ Ss' = Append(Ss, depart(scenario.mu, u))
  /\ pos' = pos + 1
  /\ n' = n - 1
  /\ ND' = ND + 1
  /\ queues' = Append(queues, n - 1)
  /\ pc' = IF n - 1 > 0 THEN "drain" ELSE "loop"
  /\ UNCHANGED <<scenario, generation, Ts, it, NA, As, seeded, run, prev>>

\* one iteration of the inner drain loop, lines 166-179
Drain ==
  /\ pc = "drain"
  /\ n > 0
  /\ \E u \in NextDraws(0) :
       LET td == Plus(t, depart(scenario.mu, u))
       IN /\ EL' = <<EL[1], td>>
          /\ t' = td
          /\ times' = Append(times, td)
          /\ Ds' = Append(Ds, td)
          /\ tape' = Consumed(<<u>>)
          /\ Ss' = Append(Ss, depart(scenario.mu, u))
  /\ pos' = pos + 1
  /\ n' = n - 1
  /\ ND' = ND + 1
  /\ queues' = Append(queues, n - 1)
  /\ pc' = IF n - 1 > 0 THEN "drain" ELSE "loop"
  /\ UNCHANGED <<scenario, generation, Ts, it, NA, As, seeded, run, prev>>

\* the break taken whatever n is
TerminateAnyN ==
  /\ pc = "loop"
  /\ Branch = "C"
  /\ pc' = "done"
  /\ UNCHANGED <<scenario, generation, Ts, it, EL, t, n, NA, ND, times, queues,
                 As, Ds, seeded, tape, pos, run, prev, Ss>>

\* Phase C with n = 0, lines 180-183: break and return
Terminate ==
  /\ pc = "loop"
  /\ Branch = "C"
  /\ ~(n > 0)
  /\ pc' = "done"
  /\ UNCHANGED <<scenario, generation, Ts, it, EL, t, n, NA, ND, times, queues,
                 As, Ds, seeded, tape, pos, run, prev, Ss>>

\* A second call of simulate(scenario) after the source has been reseeded
\* with the same seed: the locals are those of lines 87-101 again, the
\* stream is replayed from its start, and the first call's return value
\* (line 183) is kept in prev.
Rerun ==
  /\ pc = "done"
  /\ run = 1
  /\ prev' = <<times, queues, As, Ds>>
  /\ run' = 2
  /\ pos' = 0
  /\ pc' = "gen"
  /\ generation' = 0
  /\ Ts' = <<>>
  /\ it' = 0
  /\ EL' = <<0, Inf>>
  /\ t' = 0
  /\ n' = 0
  /\ NA' = 0
  /\ ND' = 0
  /\ times' = <<0>>
  /\ queues' = <<0>>
  /\ As' = <<>>
  /\ Ds' = <<>>
  /\ Ss' = <<>>
  /\ UNCHANGED <<scenario, seeded, tape>>

Next == Generate \/ PhaseA \/ PhaseB \/ PhaseC \/ Drain \/ Terminate

\* one call of simulate
Spec == Init /\ [][Next]_vars

NextDet == Next \/ Rerun

\* two calls of simulate on one scenario and one seed
SpecDet == InitDet /\ [][NextDet]_vars

\* one call of simulate, which runs without interruption: a step that can be
\* taken is taken
SpecFair == Init /\ [][Next]_vars /\ WF_vars(Next)

\* one call of simulate on a scenario with a parameter out of range
SpecInvalid == InitInvalid /\ [][Next]_vars

(***************************************************************************)
(* Properties                                                              *)
(***************************************************************************)

Horizon == scenario.demand_duration

NonDecreasing(s) == \A i \in 1 .. (Len(s) - 1) : s[i] <= s[i + 1]

Last(s) == s[Len(s)]

\* the pre-generated instants that lie within the horizon
Within == {i \in 1 .. Len(Ts) : Ts[i] <= Horizon}

\* the records of the trajectory that raise / lower the queue length by one
Ups == {i \in 2 .. Len(queues) : queues[i] = queues[i - 1] + 1}

Downs == {i \in 2 .. Len(queues) : queues[i] = queues[i - 1] - 1}

\* a departure has been recorded by Phase B / by the Phase C drain
SomeDepartureB == \E i \in 1 .. Len(Ds) : Ds[i] < Horizon

InnerDrainRan == Len(Ds) >= 2 /\ Ds[Len(Ds) - 1] >= Horizon

\* C1: when the main loop has terminated, the system state n is 0 and the
\* last element of queue_lengths is 0.
C1_DrainedAtExit == pc = "done" => (n = 0 /\ Last(queues) = 0)

C1_Witness == pc = "done" /\ Len(As) >= 2 /\ InnerDrainRan

\* C2: at termination as many arrival_times as departure_times have been
\* recorded.
C2_ArrivalsDepart == pc = "done" => Len(As) = Len(Ds)

C2_Witness == pc = "done" /\ Len(Ds) >= 3 /\ InnerDrainRan /\ SomeDepartureB

\* C3: n is never negative and no entry of queue_lengths is negative, in
\* particular once a Phase C drain has left a finite value in the ND-slot.
C3_NonNegative == n >= 0 /\ \A i \in 1 .. Len(queues) : queues[i] >= 0

C3_Witness ==
  /\ pc = "loop"
  /\ n = 0
  /\ EL[2] # Inf
  /\ EL[2] < EL[1]
  /\ InnerDrainRan

\* C4: times is non-decreasing: every event of Phase A, B or C is appended
\* with a clock value not below that of the event before it.
C4_TimesMonotone == NonDecreasing(times)

C4_Witness ==
  /\ pc = "done"
  /\ Len(As) >= 2
  /\ SomeDepartureB
  /\ InnerDrainRan
  /\ Last(times) # Inf

\* C5: times and queue_lengths have the same length, both start with 0, and
\* the last entry of queue_lengths is the current n.
C5_Parallel ==
  /\ Len(times) = Len(queues)
  /\ times[1] = 0
  /\ queues[1] = 0
  /\ Last(queues) = n

C5_Witness == Len(times) >= 5 /\ n >= 2 /\ SomeDepartureB

\* C6: arrival_times and departure_times are each non-decreasing in every
\* reachable state, the departures of the Phase C drain included.
C6_StreamsMonotone == NonDecreasing(As) /\ NonDecreasing(Ds)

C6_Witness ==
  /\ Len(As) >= 3
  /\ \E i \in 1 .. (Len(As) - 1) : As[i] = As[i + 1]
  /\ Len(Ds) >= 3
  /\ SomeDepartureB
  /\ InnerDrainRan

C8_ZeroHorizon ==
  /\ []((pc # "gen" /\ Len(Ts) = 1)
          => (times = <<0>> /\ queues = <<0>> /\ As = <<>> /\ Ds = <<>>))
  /\ [][(pc = "loop" /\ Len(Ts) = 1) => pc' = "done"]_vars

C8_Witness == pc = "done" /\ Len(Ts) = 1 /\ Ts[1] > Horizon

\* C9: with k pre-generated instants within the horizon, the final
\* trajectory holds the initial entry and 2k queue-changing events, k
\* arrivals and k departures; for k = 1 it is 0, 1, 0.
C9_EventCount ==
  pc = "done" =>
    LET k == Cardinality(Within)
    IN /\ Len(times) = 2 * k + 1
       /\ Len(queues) = 2 * k + 1
       /\ Cardinality(Ups) = k
       /\ Cardinality(Downs) = k
       /\ Len(As) = k
       /\ Len(Ds) = k
       /\ (k = 1 => queues = <<0, 1, 0>>)

C9_Witness == pc = "done" /\ Cardinality(Within) = 1 /\ Len(times) = 3

Pending == {Ts[i] : i \in (it + 1) .. Len(Ts)} \cup {EL[1]}

\* the elements of s that are <= h, in the order of s
RECURSIVE UpTo(_, _)
UpTo(s, h) ==
  IF s = <<>> THEN <<>>
  ELSE IF Head(s) <= h THEN <<Head(s)>> \o UpTo(Tail(s), h)
  ELSE UpTo(Tail(s), h)

\* C13: at every boundary of a main-loop iteration, also after a Phase C
\* drain, a queue length n of 0 comes with an ND-slot of +infinity.
C13_IdleSlotInfinite == (pc \in {"loop", "done"} /\ n = 0) => EL[2] = Inf

C15_NoInfiniteDuration ==
  /\ generation # Inf
  /\ \A i \in 1 .. Len(Ts) : Ts[i] # Inf
  /\ (n > 0 /\ pc = "loop") => EL[2] # Inf
  /\ \A i \in 1 .. Len(times) : times[i] # Inf

\* C16: at every boundary of a main-loop iteration with n > 0 the ND-slot
\* holds a finite departure time that is >= the clock t.
C16_WorkConserving ==
  (pc = "loop" /\ n > 0) => (EL[2] # Inf /\ EL[2] >= t)

\* C18: in every state of the main loop, when neither the condition of
\* Phase A nor that of Phase B holds, the condition of Phase C holds: no
\* iteration falls through the three branches.
C18_Exhaustive ==
  pc = "loop" => /\ (~CondA /\ ~CondB) => CondC
                 /\ Branch \in {"A", "B", "C"}

\* the ND-slot sits exactly on the horizon with customers in the system:
\* neither A nor B applies
C18_Witness ==
  /\ pc = "loop"
  /\ ~CondA
  /\ ~CondB
  /\ EL[2] = Horizon
  /\ n >= 2

\* C19: Phase C runs only when no pre-generated instant <= demand_duration
\* is pending, and at termination arrival_times is the ascending list of
\* all pre-generated instants <= demand_duration, each once.
C19_NoArrivalLost ==
  /\ ((pc = "loop" /\ Branch = "C") \/ pc = "drain")
       => \A x \in Pending : x > Horizon
  /\ pc = "done" => As = UpTo(Ts, Horizon)
  /\ pc \in {"loop", "drain"} => As = UpTo(SubSeq(Ts, 1, it - 1), Horizon)

C19_Witness ==
  /\ pc = "done"
  /\ InnerDrainRan
  /\ Len(As) >= 3
  /\ \E i \in 1 .. Len(As) : As[i] = Horizon

Max(a, b) == IF a >= b THEN a ELSE b

Invalid ==
  \/ scenario.lam <= 0
  \/ scenario.mu <= 0
  \/ scenario.demand_duration <= 0
  \/ scenario.t0 < 0

\* C11: with lam, mu or demand_duration <= 0, or t0 < 0, the run stops
\* before any arrival instant is generated and any event is processed.
C11_FailFast ==
  Invalid => (pc = "gen" /\ pos = 0 /\ Ts = <<>> /\ times = <<0>>)

\* C12: the main loop eventually reaches its break, with n = 0.
C12_Terminates == <>(pc = "done" /\ n = 0)

C12_Witness ==
  /\ pc = "done"
  /\ n = 0
  /\ NA = ND
  /\ NA >= 3
  /\ InnerDrainRan
  /\ SomeDepartureB

\* C17: an arrival that makes n = 1 consumes one service draw and sets the
\* ND-slot to t + that draw; an arrival that makes n > 1 consumes no draw
\* and leaves the ND-slot as it is; a departure leaves the NA-slot as it is.
C17_RearmFromIdle ==
  [][/\ (NA' = NA + 1 /\ n' = 1)
          => /\ pos' = pos + 1
             /\ Len(Ss') = Len(Ss) + 1
             /\ EL'[2] = Plus(t', Last(Ss'))
     /\ (NA' = NA + 1 /\ n' > 1)
          => /\ pos' = pos
             /\ Ss' = Ss
             /\ EL'[2] = EL[2]
     /\ (ND' = ND + 1) => EL'[1] = EL[1]]_vars

\* a second customer has arrived behind the one in service: one draw so far
C17_Witness ==
  /\ pc = "loop"
  /\ n = 2
  /\ Len(As) = 2
  /\ Len(Ds) = 0
  /\ Len(Ss) = 1
  /\ EL[2] = Plus(As[1], Ss[1])

\* C20: one service duration is drawn per customer, and the k-th departure
\* is D_k = max(A_k, D_(k-1)) + S_k with D_0 = 0, whether it is recorded by
\* Phase B or by the Phase C drain.
C20_Lindley ==
  /\ Len(Ss) = Len(Ds) + (IF pc = "loop" /\ n > 0 THEN 1 ELSE 0)
  /\ pc = "done" => Len(Ss) = Len(As)
  /\ Len(Ds) <= Len(As)
  /\ \A k \in 1 .. Len(Ds) :
       Ds[k] = Plus(Max(As[k], IF k = 1 THEN 0 ELSE Ds[k - 1]), Ss[k])

\* a run with a customer served from idle, a customer that waited, a
\* Phase B departure and a drain
C20_Witness ==
  /\ pc = "done"
  /\ Len(Ds) >= 3
  /\ \E k \in 2 .. Len(Ds) : As[k] > Ds[k - 1]
  /\ \E k \in 2 .. Len(Ds) : As[k] < Ds[k - 1]
  /\ SomeDepartureB
  /\ InnerDrainRan
  /\ Last(Ds) # Inf

====
